---- MODULE Spec2Model ----
(***************************************************************************)
(* Model of btc-checker (src/main.py): the indicator pipeline              *)
(* calculate_indicators, the classifier generate_signal and the Streamlit  *)
(* script that fetches two price histories, renders the indicators and     *)
(* emits a signal.                                                         *)
(*                                                                         *)
(* Numbers.  The program computes in IEEE doubles.  The model computes     *)
(* exactly and keeps the IEEE special values the code relies on (NaN,      *)
(* +-inf, the sign of zero):                                               *)
(*   - "Q" values are small exact rationals n/d (prices, rolling means,    *)
(*     RSI);                                                               *)
(*   - "E" values are the exponentially weighted columns.  With            *)
(*     adjust=False every value of row t is a multiple of 1/EmaDen^t, so   *)
(*     it is kept as a signed numerator over EmaDen^e whose magnitude is   *)
(*     a little-endian sequence of limbs in base Base.                     *)
(***************************************************************************)
EXTENDS Integers, Sequences, FiniteSets

\* ------------------------------------------------------------------------
\* Program constants
\* ------------------------------------------------------------------------
\* rolling(window=50) and rolling(window=200)
SmaShort == 50
SmaLong == 200
\* rolling(window=14) of the gains and of the losses
RsiWindow == 14
\* ewm(span=12), ewm(span=26), ewm(span=9)
SpanShort == 12
SpanLong == 26
SpanSignal == 9
\* thresholds of generate_signal
RsiSell == 65
RsiBuy == 35
RsiBuild == 45

\* ------------------------------------------------------------------------
\* Bounds of the model
\* ------------------------------------------------------------------------
\* longest price history a run is given (the script asks for 200 days and
\* CoinGecko answers with one point more)
MaxRows == 201

\* ------------------------------------------------------------------------
\* Magnitudes: naturals as little-endian limb sequences, <<>> is zero
\* ------------------------------------------------------------------------
Base == 100 * 100
\* every ewm value of row t is a multiple of 1/EmaDen^t
EmaDen == ((SpanShort + 1) * (SpanLong + 1) * (SpanSignal + 1)) \div 2

\* The({ f(v) : v \in {e} }) is f(e) with e evaluated once.
The(S) == CHOOSE r \in S : TRUE

\* The carries are propagated by halving the limb range, which keeps the
\* evaluation depth logarithmic in the number of limbs.  Each helper returns
\* <<limbs of the range, carry out of the range>>.

RECURSIVE BMulR(_, _, _, _, _)
BMulR(x, k, lo, hi, carry) ==
    IF lo = hi
    THEN The({ <<<<v % Base>>, v \div Base>> : v \in {x[lo] * k + carry} })
    ELSE The({ The({ <<L[1] \o H[1], H[2]>> :
                     H \in {BMulR(x, k, ((lo + hi) \div 2) + 1, hi, L[2])} }) :
               L \in {BMulR(x, k, lo, (lo + hi) \div 2, carry)} })

RECURSIVE BFromNat(_)
BFromNat(n) == IF n = 0 THEN <<>> ELSE <<n % Base>> \o BFromNat(n \div Base)

\* x * k for a natural k with k * Base within the integer range
BMulS(x, k) ==
    IF k = 0 \/ x = <<>> THEN <<>>
    ELSE The({ r[1] \o BFromNat(r[2]) : r \in {BMulR(x, k, 1, Len(x), 0)} })

Limb(x, i) == IF i <= Len(x) THEN x[i] ELSE 0

RECURSIVE BAddR(_, _, _, _, _)
BAddR(x, y, lo, hi, carry) ==
    IF lo = hi
    THEN The({ <<<<v % Base>>, v \div Base>> : v \in {Limb(x, lo) + Limb(y, lo) + carry} })
    ELSE The({ The({ <<L[1] \o H[1], H[2]>> :
                     H \in {BAddR(x, y, ((lo + hi) \div 2) + 1, hi, L[2])} }) :
               L \in {BAddR(x, y, lo, (lo + hi) \div 2, carry)} })

BAdd(x, y) ==
    IF x = <<>> THEN y
    ELSE IF y = <<>> THEN x
    ELSE The({ r[1] \o BFromNat(r[2]) :
               r \in {BAddR(x, y, 1, (IF Len(x) > Len(y) THEN Len(x) ELSE Len(y)), 0)} })

\* x without its leading zero limbs
BTrim(x) ==
    LET nz == { i \in 1..Len(x) : x[i] # 0 }
    IN IF nz = {} THEN <<>>
       ELSE SubSeq(x, 1, CHOOSE i \in nz : \A j \in nz : j <= i)

\* the borrow out of a range is 0 or 1
RECURSIVE BSubR(_, _, _, _, _)
BSubR(x, y, lo, hi, borrow) ==
    IF lo = hi
    THEN The({ (IF v < 0 THEN <<<<v + Base>>, 1>> ELSE <<<<v>>, 0>>) :
               v \in {x[lo] - Limb(y, lo) - borrow} })
    ELSE The({ The({ <<L[1] \o H[1], H[2]>> :
                     H \in {BSubR(x, y, ((lo + hi) \div 2) + 1, hi, L[2])} }) :
               L \in {BSubR(x, y, lo, (lo + hi) \div 2, borrow)} })

\* x - y for x >= y
BSub(x, y) ==
    IF y = <<>> THEN x
    ELSE The({ BTrim(r[1]) : r \in {BSubR(x, y, 1, Len(x), 0)} })

\* -1, 0, 1 as the limbs lo..hi of x are below, equal to, above those of y
RECURSIVE BCmpR(_, _, _, _)
BCmpR(x, y, lo, hi) ==
    IF lo = hi
    THEN (IF x[lo] < y[lo] THEN -1 ELSE IF x[lo] > y[lo] THEN 1 ELSE 0)
    ELSE The({ (IF h # 0 THEN h ELSE BCmpR(x, y, lo, (lo + hi) \div 2)) :
               h \in {BCmpR(x, y, ((lo + hi) \div 2) + 1, hi)} })

\* -1, 0, 1 as x < y, x = y, x > y
BCmp(x, y) ==
    IF Len(x) < Len(y) THEN -1
    ELSE IF Len(x) > Len(y) THEN 1
    ELSE IF x = <<>> THEN 0
    ELSE BCmpR(x, y, 1, Len(x))

\* long division from the top limb down; returns <<limbs, remainder>>
RECURSIVE BDivR(_, _, _, _, _)
BDivR(x, k, lo, hi, rem) ==
    IF lo = hi
    THEN The({ <<<<v \div k>>, v % k>> : v \in {rem * Base + x[lo]} })
    ELSE The({ The({ <<L[1] \o H[1], L[2]>> :
                     L \in {BDivR(x, k, lo, (lo + hi) \div 2, H[2])} }) :
               H \in {BDivR(x, k, ((lo + hi) \div 2) + 1, hi, rem)} })

\* x \div k for a natural k > 0 with k * Base within the integer range
BDivS(x, k) ==
    IF x = <<>> THEN <<>>
    ELSE The({ BTrim(r[1]) : r \in {BDivR(x, k, 1, Len(x), 0)} })

Abs(i) == IF i < 0 THEN -i ELSE i

\* ------------------------------------------------------------------------
\* E values: s * m / EmaDen^e, or NaN
\* ------------------------------------------------------------------------
ENaN == [k |-> "nan", s |-> 1, m |-> <<>>, e |-> 0]
ENum(s, m, e) == [k |-> "num", s |-> (IF m = <<>> THEN 1 ELSE s), m |-> m, e |-> e]
EInt(i) == ENum((IF i < 0 THEN -1 ELSE 1), BFromNat(Abs(i)), 0)

\* the same value over EmaDen^(e+1)
ERescale(x) ==
    IF x.k = "nan" THEN ENaN ELSE ENum(x.s, BMulS(x.m, EmaDen), x.e + 1)

RECURSIVE EAlign(_, _)
EAlign(x, e) == IF x.k = "nan" \/ x.e >= e THEN x ELSE EAlign(ERescale(x), e)

EMulS(x, k) == IF x.k = "nan" THEN ENaN ELSE ENum(x.s, BMulS(x.m, k), x.e)

\* exact quotient by k (the numerator is a multiple of k where it is used)
EDivS(x, k) == IF x.k = "nan" THEN ENaN ELSE ENum(x.s, BDivS(x.m, k), x.e)

ENeg(x) == IF x.k = "nan" THEN ENaN ELSE ENum(-x.s, x.m, x.e)

EAddAligned(a, b) ==
    IF a.s = b.s THEN ENum(a.s, BAdd(a.m, b.m), a.e)
    ELSE IF BCmp(a.m, b.m) >= 0 THEN ENum(a.s, BSub(a.m, b.m), a.e)
    ELSE ENum(b.s, BSub(b.m, a.m), a.e)

EAdd(a, b) ==
    IF a.k = "nan" \/ b.k = "nan" THEN ENaN
    ELSE The({ EAddAligned(p[1], p[2]) : p \in {<<EAlign(a, b.e), EAlign(b, a.e)>>} })

ESub(a, b) == EAdd(a, ENeg(b))

\* sign of the value: -1, 0, 1
ESign(x) == IF x.m = <<>> THEN 0 ELSE x.s

\* float comparison a < b: False as soon as one side is NaN
ELt(a, b) ==
    IF a.k = "nan" \/ b.k = "nan" THEN FALSE
    ELSE ESign(ESub(a, b)) < 0

\* float comparison a > b: False as soon as one side is NaN
EGt(a, b) ==
    IF a.k = "nan" \/ b.k = "nan" THEN FALSE
    ELSE ESign(ESub(a, b)) > 0

\* numeric equality of two defined values
EEq(a, b) == a.k = "num" /\ b.k = "num" /\ ESign(ESub(a, b)) = 0

\* ------------------------------------------------------------------------
\* Q values: exact rationals n/d with the IEEE specials (NaN, +-inf, -0.0)
\* ------------------------------------------------------------------------
RECURSIVE Gcd(_, _)
Gcd(a, b) == IF b = 0 THEN a ELSE Gcd(b, a % b)

QNaN == [k |-> "nan", n |-> 0, d |-> 1, neg |-> FALSE]
QInf(neg) == [k |-> "inf", n |-> 0, d |-> 1, neg |-> neg]
QZero(neg) == [k |-> "num", n |-> 0, d |-> 1, neg |-> neg]

\* n/d for d > 0, in lowest terms
QFrac(n, d) ==
    LET g == Gcd(Abs(n), d)
    IN [k |-> "num", n |-> n \div g, d |-> d \div g, neg |-> n < 0]

QInt(i) == QFrac(i, 1)

QNeg(a) ==
    IF a.k = "nan" THEN QNaN
    ELSE [a EXCEPT !.n = -a.n, !.neg = ~a.neg]

QDiv(a, b) ==
    IF a.k = "nan" \/ b.k = "nan" THEN QNaN
    ELSE IF a.k = "inf" THEN (IF b.k = "inf" THEN QNaN ELSE QInf(a.neg # b.neg))
    ELSE IF b.k = "inf" THEN QZero(a.neg # b.neg)
    ELSE IF b.n = 0 THEN (IF a.n = 0 THEN QNaN ELSE QInf(a.neg # b.neg))
    ELSE IF a.n = 0 THEN QZero(a.neg # b.neg)
    ELSE QFrac((IF a.neg # b.neg THEN -1 ELSE 1) * Abs(a.n) * b.d, a.d * Abs(b.n))

QAdd(a, b) ==
    IF a.k = "nan" \/ b.k = "nan" THEN QNaN
    ELSE IF a.k = "inf" /\ b.k = "inf" THEN (IF a.neg = b.neg THEN a ELSE QNaN)
    ELSE IF a.k = "inf" THEN a
    ELSE IF b.k = "inf" THEN b
    ELSE LET n == a.n * b.d + b.n * a.d
         IN IF n = 0 THEN QZero(a.neg /\ b.neg) ELSE QFrac(n, a.d * b.d)

QSub(a, b) == QAdd(a, QNeg(b))

\* float comparison a < b: False as soon as one side is NaN
QLt(a, b) ==
    IF a.k = "nan" \/ b.k = "nan" THEN FALSE
    ELSE IF a.k = "inf" THEN a.neg /\ ~(b.k = "inf" /\ b.neg)
    ELSE IF b.k = "inf" THEN ~b.neg
    ELSE a.n * b.d < b.n * a.d

\* float comparison a > b
QGt(a, b) == QLt(b, a)

\* QLe computed as "not greater", which a NaN satisfies
QLeNotGt(a, b) == ~QLt(b, a)

\* float comparison a <= b: False as soon as one side is NaN
QLe(a, b) ==
    IF a.k = "nan" \/ b.k = "nan" THEN FALSE
    ELSE ~QLt(b, a)

\* numeric equality (NaN equals nothing, -0.0 equals 0.0)
QEq(a, b) == QLe(a, b) /\ QLe(b, a)

\* ------------------------------------------------------------------------
\* calculate_indicators
\*
\* Every column is a one-pass recurrence over the rows, so the row of index
\* i for the closes 0..i is computed from the accumulators left by the rows
\* 0..i-1.  Indices are zero-based as in the code; Close[i + 1] is the
\* close of index i.
\* ------------------------------------------------------------------------

\* df['Close'].diff() at index i >= 1
Delta(C, i) == C[i + 1] - C[i]

\* GainAt keeping the falls instead of the rises
GainAtFalls(C, i) == IF i = 0 THEN 0 ELSE IF Delta(C, i) < 0 THEN Delta(C, i) ELSE 0

\* delta.where(delta > 0, 0): the NaN of index 0 fails the test and becomes 0
GainAt(C, i) == IF i = 0 THEN 0 ELSE IF Delta(C, i) > 0 THEN Delta(C, i) ELSE 0

\* delta.where(delta < 0, 0)
LossAt(C, i) == IF i = 0 THEN 0 ELSE IF Delta(C, i) < 0 THEN Delta(C, i) ELSE 0

\* RollSum dropping the value one row late
RollSumLate(sum, new, i, window, old) == sum + new - (IF i > window THEN old ELSE 0)

\* rolling(window): the sliding sum takes the new value in and drops the
\* value that leaves the window
RollSum(sum, new, i, window, old) == sum + new - (IF i >= window THEN old ELSE 0)

\* rolling(window).mean() at index i: NaN until the window is full
RollMean(sum, i, window) == IF i + 1 < window THEN QNaN ELSE QFrac(sum, window)

\* Rsi without the 1 + of the denominator
RsiNoOne(gain, loss) ==
    LET rs == QDiv(gain, loss)
    IN QSub(QInt(100), QDiv(QInt(100), rs))

\* rs = gain / loss; 100 - (100 / (1 + rs))
Rsi(gain, loss) ==
    LET rs == QDiv(gain, loss)
    IN QSub(QInt(100), QDiv(QInt(100), QAdd(QInt(1), rs)))

\* EwmStep with weights that do not sum to one
EwmStepUnnormalised(span, prev, cur) ==
    EDivS(EAdd(EMulS(ERescale(prev), span - 1), EMulS(cur, 2)), span)

\* ewm(span, adjust=False).mean(): y = (1 - alpha) * prev + alpha * cur with
\* alpha = 2 / (span + 1); prev is a value of the row before, cur of this row
EwmStep(span, prev, cur) ==
    EDivS(EAdd(EMulS(ERescale(prev), span - 1), EMulS(cur, 2)), span + 1)

NoRoll == [sma50 |-> 0, sma200 |-> 0, gain |-> 0, loss |-> 0]
NoEwm == [unit |-> EInt(1), short |-> ENaN, long |-> ENaN, signal |-> ENaN]
NoRow == [Close |-> QNaN, SMA_50 |-> QNaN, SMA_200 |-> QNaN, RSI |-> QNaN,
          MACD |-> ENaN, MACD_Signal |-> ENaN]

\* the sliding sums after the row of index Len(C) - 1
CalcRoll(C, r) ==
    LET i == Len(C) - 1
    IN [sma50 |-> RollSum(r.sma50, C[i + 1], i, SmaShort,
                          IF i >= SmaShort THEN C[i + 1 - SmaShort] ELSE 0),
        sma200 |-> RollSum(r.sma200, C[i + 1], i, SmaLong,
                           IF i >= SmaLong THEN C[i + 1 - SmaLong] ELSE 0),
        gain |-> RollSum(r.gain, GainAt(C, i), i, RsiWindow,
                         IF i >= RsiWindow THEN GainAt(C, i - RsiWindow) ELSE 0),
        loss |-> RollSum(r.loss, LossAt(C, i), i, RsiWindow,
                         IF i >= RsiWindow THEN LossAt(C, i - RsiWindow) ELSE 0)]

\* the exponential averages after the row of index Len(C) - 1; the first
\* value of each average is the first value of its input
CalcEwm(C, w) ==
    LET i == Len(C) - 1
    IN IF i = 0
       THEN [unit |-> EInt(1), short |-> EInt(C[1]), long |-> EInt(C[1]),
             signal |-> ESub(EInt(C[1]), EInt(C[1]))]
       ELSE The(
            { [unit |-> p[1], short |-> p[2], long |-> p[3],
               signal |-> EwmStep(SpanSignal, w.signal, ESub(p[2], p[3]))] :
              p \in { <<u, EwmStep(SpanShort, w.short, EMulS(u, C[i + 1])),
                        EwmStep(SpanLong, w.long, EMulS(u, C[i + 1]))>> :
                      u \in {ERescale(w.unit)} } })

\* the last row of the annotated frame
CalcRow(C, r, w) ==
    LET i == Len(C) - 1
    IN [Close |-> QInt(C[i + 1]),
        SMA_50 |-> RollMean(r.sma50, i, SmaShort),
        SMA_200 |-> RollMean(r.sma200, i, SmaLong),
        RSI |-> Rsi(RollMean(r.gain, i, RsiWindow),
                    QNeg(RollMean(r.loss, i, RsiWindow))),
        MACD |-> ESub(w.short, w.long),
        MACD_Signal |-> w.signal]

\* ------------------------------------------------------------------------
\* generate_signal
\* ------------------------------------------------------------------------
Sell == "Sell Signal - Sell all"
Buy == "Buy Signal - Invest all"
Build == "Building Buy Zone - Invest slowly"
Neutral == "Neutral/Wait - Hold cash"
Labels == {Sell, Buy, Build, Neutral}

\* SellCond with the RSI test outside the MACD test
SellCondRsiAlone(rsi, price, sma50, sma200, macd, macd_signal) ==
    \/ QGt(rsi, QInt(RsiSell))
    \/ /\ ELt(macd, macd_signal)
       /\ QGt(price, sma50) /\ QGt(price, sma200)

\* the condition of the first branch
SellCond(rsi, price, sma50, sma200, macd, macd_signal) ==
    /\ ELt(macd, macd_signal)
    /\ \/ QGt(rsi, QInt(RsiSell))
       \/ (QGt(price, sma50) /\ QGt(price, sma200))

\* the condition of the second branch
BuyCond(rsi, price, sma50, sma200, macd, macd_signal) ==
    /\ EGt(macd, macd_signal)
    /\ QLt(rsi, QInt(RsiBuy))
    /\ QLt(price, sma50)
    /\ QGt(price, sma200)

\* BuildCond without the lower bound of the RSI band
BuildCondNoFloor(rsi, price, sma50, sma200, macd, macd_signal) ==
    /\ QLt(rsi, QInt(RsiBuild))
    /\ QLe(price, sma50)
    /\ EGt(macd, macd_signal)

\* the condition of the third branch
BuildCond(rsi, price, sma50, sma200, macd, macd_signal) ==
    /\ QLe(QInt(RsiBuy), rsi)
    /\ QLt(rsi, QInt(RsiBuild))
    /\ QLe(price, sma50)
    /\ EGt(macd, macd_signal)

\* generate_signal whose last branch tests the RSI, so that an observation
\* matching no branch falls off the end of the function
generate_signal_no_default(rsi, price, sma50, sma200, macd, macd_signal) ==
    IF SellCond(rsi, price, sma50, sma200, macd, macd_signal)
    THEN [label |-> Sell, reason |-> "Bearish setup"]
    ELSE IF BuyCond(rsi, price, sma50, sma200, macd, macd_signal)
    THEN [label |-> Buy, reason |-> "Strong buy"]
    ELSE IF BuildCond(rsi, price, sma50, sma200, macd, macd_signal)
    THEN [label |-> Build, reason |-> "Gradual buying zone"]
    ELSE IF QLe(rsi, QInt(RsiSell))
    THEN [label |-> Neutral, reason |-> "No strong alignment"]
    ELSE [label |-> "None", reason |-> "None"]

\* the label and the template of the reason; formatting a NaN with :.2f or
\* :.4f gives "nan" and does not raise
generate_signal(rsi, price, sma50, sma200, macd, macd_signal) ==
    IF SellCond(rsi, price, sma50, sma200, macd, macd_signal)
    THEN [label |-> Sell, reason |-> "Bearish setup"]
    ELSE IF BuyCond(rsi, price, sma50, sma200, macd, macd_signal)
    THEN [label |-> Buy, reason |-> "Strong buy"]
    ELSE IF BuildCond(rsi, price, sma50, sma200, macd, macd_signal)
    THEN [label |-> Build, reason |-> "Gradual buying zone"]
    ELSE [label |-> Neutral, reason |-> "No strong alignment"]

NoSignal == [label |-> "pending", reason |-> "pending"]

\* ------------------------------------------------------------------------
\* Price histories given to the pipeline
\* ------------------------------------------------------------------------
\* A history starts at base and moves by the deltas of runs, each <<d, k>>
\* being k days of change d, repeated cyclically.
RECURSIVE RunAt(_, _)
RunAt(runs, pos) ==
    IF pos < runs[1][2] THEN runs[1][1] ELSE RunAt(Tail(runs), pos - runs[1][2])

RECURSIVE Period(_)
Period(runs) == IF runs = <<>> THEN 0 ELSE runs[1][2] + Period(Tail(runs))

\* the change of the close from index t - 1 to index t, t >= 1
PlanDelta(p, t) == RunAt(p.runs, (t - 1) % Period(p.runs))

\* rises of 200 closes from 20,000 to 40,000
RisingPlans ==
    { [base |-> 20000, runs |-> <<<<200, 1>>, <<100, 198>>>>],
      [base |-> 20000, runs |-> <<<<100, 198>>, <<200, 1>>>>],
      [base |-> 20000, runs |-> <<<<200, 34>>, <<100, 99>>, <<50, 66>>>>],
      [base |-> 20000, runs |-> <<<<50, 66>>, <<100, 99>>, <<200, 34>>>>],
      [base |-> 20000, runs |-> <<<<200, 67>>, <<50, 132>>>>],
      [base |-> 20000, runs |-> <<<<50, 132>>, <<200, 67>>>>] }

\* a long rise, a sharp fall, then a slow decline
ReversalPlan == [base |-> 20000, runs |-> <<<<100, 170>>, <<-400, 15>>, <<-20, 16>>>>]

\* a long rise, a fall, then a recovery that keeps the RSI under 50
RecoveryPlan == [base |-> 20000, runs |-> <<<<100, 169>>, <<-300, 20>>, <<40, 3>>, <<-30, 2>>>>]

Plans ==
    RisingPlans \cup
    { [base |-> 30000, runs |-> <<<<0, 1>>>>],
      [base |-> 40000, runs |-> <<<<-100, 1>>>>],
      [base |-> 30000, runs |-> <<<<300, 1>>, <<-200, 1>>>>],
      [base |-> 30000, runs |-> <<<<-300, 1>>, <<200, 1>>>>],
      [base |-> 30000, runs |-> <<<<0, 20>>, <<50, 1>>>>],
      [base |-> 30000, runs |-> <<<<0, 20>>, <<-50, 1>>>>],
      [base |-> 30000, runs |-> <<<<100, 3>>, <<-150, 2>>>>],
      [base |-> 30000, runs |-> <<<<-7, 5>>, <<0, 3>>, <<11, 6>>>>],
      ReversalPlan, RecoveryPlan }

NoPlan == [base |-> 0, runs |-> <<>>]

\* ------------------------------------------------------------------------
\* State
\* ------------------------------------------------------------------------
\* plan    the upstream price history (an input)
\* Close   the closes of the frame, oldest first
\* roll    the sliding sums of calculate_indicators after the last row
\* ewm     the exponential averages of calculate_indicators after the last row
\* row     the last row of the annotated frame
\* signal  generate_signal on the last row with the last close as the price
\* ui      what one run of the Streamlit script has rendered
\* obs     an observation handed to generate_signal directly
\* result  what generate_signal returned for obs
VARIABLES plan, Close, roll, ewm, row, signal, ui, obs, result
vars == <<plan, Close, roll, ewm, row, signal, ui, obs, result>>

\* the page before the script has run
Idle == [status |-> "idle", run |-> [cg |-> "none", bn |-> "none", etoro_price |-> 0],
         error |-> "", notice |-> FALSE, coingecko |-> NoRow, binance |-> NoRow,
         signal |-> NoSignal]

\* no observation
NoObs == [rsi |-> QNaN, price |-> QNaN, sma50 |-> QNaN, sma200 |-> QNaN,
          macd |-> ENaN, macd_signal |-> ENaN]

InitFrame ==
    /\ Close = <<>>
    /\ roll = NoRoll
    /\ ewm = NoEwm
    /\ row = NoRow
    /\ signal = NoSignal

Init ==
    /\ plan \in Plans
    /\ InitFrame
    /\ ui = Idle
    /\ obs = NoObs
    /\ result = NoSignal

\* calculate_indicators on the frame grown by the next close of the history:
\* each column is carried one row further
calculate_indicators ==
    /\ Len(Close) < MaxRows
    /\ \E C \in { Append(Close, IF Close = <<>> THEN plan.base
                                ELSE Close[Len(Close)] + PlanDelta(plan, Len(Close))) } :
         /\ Close' = C
         /\ \E a \in { <<CalcRoll(C, roll), CalcEwm(C, ewm)>> } :
              /\ roll' = a[1]
              /\ ewm' = a[2]
              /\ row' = CalcRow(C, a[1], a[2])

\* calculate_indicators followed by generate_signal on the last row, with
\* the last close as the price
Pipeline ==
    /\ calculate_indicators
    /\ signal' = generate_signal(row'.RSI, row'.Close, row'.SMA_50, row'.SMA_200,
                                 row'.MACD, row'.MACD_Signal)
    /\ UNCHANGED <<plan, ui, obs, result>>

Next == Pipeline
Spec == Init /\ [][Next]_vars

\* ------------------------------------------------------------------------
\* generate_signal on observations given directly (SpecSignal)
\* ------------------------------------------------------------------------
ObsRsi == {QNaN} \cup { QInt(v) : v \in {20, 35, 40, 45, 65, 70} }
ObsPrice == { QInt(v) : v \in {-5, 90, 100, 110} }
ObsSma50 == {QNaN, QInt(100), QInt(120)}
ObsSma200 == {QNaN, QInt(80), QInt(100)}
ObsMacd == {ENaN, EInt(-1), EInt(0), EInt(1)}
ObsMacdSignal == {ENaN, EInt(0)}

InitSignal ==
    /\ plan = NoPlan
    /\ InitFrame
    /\ ui = Idle
    /\ obs \in [rsi : ObsRsi, price : ObsPrice, sma50 : ObsSma50, sma200 : ObsSma200,
                macd : ObsMacd, macd_signal : ObsMacdSignal]
    /\ result = NoSignal

Classify ==
    /\ result = NoSignal
    /\ result' = generate_signal(obs.rsi, obs.price, obs.sma50, obs.sma200,
                                 obs.macd, obs.macd_signal)
    /\ UNCHANGED <<plan, Close, roll, ewm, row, signal, ui, obs>>

NextSignal == Classify
SpecSignal == InitSignal /\ [][NextSignal]_vars

\* ------------------------------------------------------------------------
\* The Streamlit script (SpecApp)
\* ------------------------------------------------------------------------
\* what the two providers answer in one run
CgOutcomes == {"ok", "http_error", "no_prices"}
BnOutcomes == {"ok", "http_error"}
\* what the user types as the eToro price
EtoroPrices == {25000, 32000, 40000}

\* pd.DataFrame(): no column and no row
EmptyFrame == [columns |-> {}, Close |-> <<>>]

\* returns the frame of the history, or raises on a status other than 200
\* and on a body without 'prices'
fetch_btc_data_coingecko(outcome, history) ==
    IF outcome = "ok"
    THEN [raised |-> FALSE, df |-> [columns |-> {"Close"}, Close |-> history]]
    ELSE [raised |-> TRUE, df |-> EmptyFrame]

\* returns the frame of the history, or raises on a status other than 200
fetch_btc_data_binance(outcome, history) ==
    IF outcome = "ok"
    THEN [raised |-> FALSE, df |-> [columns |-> {"Close"}, Close |-> history]]
    ELSE [raised |-> TRUE, df |-> EmptyFrame]

\* a CoinGecko failure is caught and leaves an empty frame; a Binance
\* failure is not caught here
fetch_btc_data(cg, bn, history) ==
    LET g == fetch_btc_data_coingecko(cg, history)
        b == fetch_btc_data_binance(bn, history)
    IN [raised |-> b.raised,
        coin_gecko_df |-> (IF g.raised THEN EmptyFrame ELSE g.df),
        coingecko_source |-> (IF g.raised THEN "No data from CoinGecko" ELSE "CoinGecko"),
        binance_df |-> b.df,
        binance_source |-> "Binance"]

\* df['Close'] of calculate_indicators raises KeyError on a frame without
\* that column
calculate_indicators_raises(df) == "Close" \notin df.columns

\* st.error of the except branch: nothing else of the run is rendered
Failed(run, msg) == [Idle EXCEPT !.status = "error", !.run = run, !.error = msg]

\* the price passed to generate_signal
SignalPriceClose(etoro_price, latest_binance) == latest_binance.Close

SignalPrice(etoro_price, latest_binance) == QInt(etoro_price)

\* one run of the script: both providers serve the history Close, whose
\* annotated last row is row; they answer cg and bn and the user has typed
\* etoro_price
Script(cg, bn, etoro_price) ==
    LET run == [cg |-> cg, bn |-> bn, etoro_price |-> etoro_price]
        f == fetch_btc_data(cg, bn, Close)
    IN IF f.raised THEN Failed(run, "API Error")
       ELSE IF calculate_indicators_raises(f.coin_gecko_df) THEN Failed(run, "'Close'")
       ELSE IF calculate_indicators_raises(f.binance_df) THEN Failed(run, "'Close'")
       ELSE IF f.binance_df.Close = <<>> THEN Failed(run, "single positional indexer is out-of-bounds")
       ELSE LET latest_coingecko == IF f.coin_gecko_df.Close # <<>> THEN row ELSE NoRow
                latest_binance == row
            IN [status |-> "rendered",
                run |-> run,
                error |-> "",
                notice |-> (f.coin_gecko_df.Close = <<>>),
                coingecko |-> latest_coingecko,
                binance |-> latest_binance,
                signal |-> generate_signal(latest_binance.RSI,
                                           SignalPrice(etoro_price, latest_binance),
                                           latest_binance.SMA_50, latest_binance.SMA_200,
                                           latest_binance.MACD, latest_binance.MACD_Signal)]

AppPlans == {RecoveryPlan}

InitApp ==
    /\ plan \in AppPlans
    /\ InitFrame
    /\ ui = Idle
    /\ obs = NoObs
    /\ result = NoSignal

\* the history the providers serve is one day longer; the page is stale
NewDay ==
    /\ calculate_indicators
    /\ ui' = Idle
    /\ UNCHANGED <<plan, signal, obs, result>>

\* the script runs from top to bottom
RunScript ==
    /\ Len(Close) >= 1
    /\ \E cg \in CgOutcomes, bn \in BnOutcomes, p \in EtoroPrices :
         ui' = Script(cg, bn, p)
    /\ UNCHANGED <<plan, Close, roll, ewm, row, signal, obs, result>>

NextApp == NewDay \/ RunScript
SpecApp == InitApp /\ [][NextApp]_vars

\* ------------------------------------------------------------------------
\* Properties of the pipeline (Spec)
\* ------------------------------------------------------------------------
RECURSIVE SumClose(_, _, _)
\* C[lo] + ... + C[hi]
SumClose(C, lo, hi) ==
    IF lo > hi THEN 0
    ELSE IF lo = hi THEN C[lo]
    ELSE SumClose(C, lo, (lo + hi) \div 2) + SumClose(C, ((lo + hi) \div 2) + 1, hi)

RECURSIVE SumRise(_, _, _)
\* the sum of the day-over-day rises into the indices lo..hi (zero-based)
SumRise(C, lo, hi) ==
    IF lo > hi THEN 0
    ELSE IF lo = hi THEN (IF lo >= 1 /\ C[lo + 1] > C[lo] THEN C[lo + 1] - C[lo] ELSE 0)
    ELSE SumRise(C, lo, (lo + hi) \div 2) + SumRise(C, ((lo + hi) \div 2) + 1, hi)

RECURSIVE SumFall(_, _, _)
\* the sum of the day-over-day falls into the indices lo..hi (zero-based)
SumFall(C, lo, hi) ==
    IF lo > hi THEN 0
    ELSE IF lo = hi THEN (IF lo >= 1 /\ C[lo + 1] < C[lo] THEN C[lo] - C[lo + 1] ELSE 0)
    ELSE SumFall(C, lo, (lo + hi) \div 2) + SumFall(C, ((lo + hi) \div 2) + 1, hi)

\* 200 closes rising strictly from 20,000 to 40,000
Rising20kTo40k ==
    /\ Len(Close) = 200
    /\ Close[1] = 20000
    /\ Close[200] = 40000
    /\ \A j \in 1..199 : Close[j] < Close[j + 1]

\* C2 as stated: on 200 closes rising strictly from 20,000 to 40,000 the
\* last row has RSI > 65 and the label is Sell.
C2_RisingIsSell ==
    Rising20kTo40k =>
        /\ QGt(row.RSI, QInt(65))
        /\ signal.label = Sell

\* C2 amended: on 200 closes rising strictly from 20,000 to 40,000 the last
\* row has RSI > 65; the label is Sell when the last row also has
\* MACD < MACD-signal and Neutral otherwise.
C2_RisingSellNeedsMacdBelow ==
    Rising20kTo40k =>
        /\ QGt(row.RSI, QInt(65))
        /\ ELt(row.MACD, row.MACD_Signal) => signal.label = Sell
        /\ ~ELt(row.MACD, row.MACD_Signal) => signal.label = Neutral

C2_Witness ==
    /\ Rising20kTo40k
    /\ EGt(row.MACD, row.MACD_Signal)
    /\ signal.label = Neutral

\* 200 closes of exactly 30,000
Flat30k ==
    /\ Len(Close) = 200
    /\ \A j \in 1..200 : Close[j] = 30000

\* C6: on 200 closes of exactly 30,000 the last row has MACD = 0,
\* MACD-signal = 0 and SMA-50 = SMA-200 = 30,000, the RSI is a number or
\* the undefined marker, and the label is Neutral.
C6_FlatIsNeutral ==
    Flat30k =>
        /\ EEq(row.MACD, EInt(0))
        /\ EEq(row.MACD_Signal, EInt(0))
        /\ QEq(row.SMA_50, QInt(30000))
        /\ QEq(row.SMA_200, QInt(30000))
        /\ row.RSI.k \in {"num", "nan"}
        /\ signal.label = Neutral

C6_Witness ==
    /\ Flat30k
    /\ row.RSI.k = "nan"
    /\ signal.label = Neutral

\* C7: the RSI is undefined at the indices 0..12 (so everywhere in a series
\* of fewer than 14 points); from index 13 on it is undefined when the
\* trailing gains and losses are all zero and defined otherwise; a defined
\* RSI lies in [0, 100] and is 100 when the trailing losses are zero and the
\* trailing gains are not.
C7_RsiContract ==
    Len(Close) >= 1 =>
        LET i == Len(Close) - 1
            G == SumRise(Close, i - 13, i)
            L == SumFall(Close, i - 13, i)
        IN /\ i < 13 => row.RSI.k = "nan"
           /\ (i >= 13 /\ G = 0 /\ L = 0) => row.RSI.k = "nan"
           /\ (i >= 13 /\ (G > 0 \/ L > 0)) =>
                /\ row.RSI.k = "num"
                /\ QLe(QInt(0), row.RSI)
                /\ QLe(row.RSI, QInt(100))
           /\ (i >= 13 /\ L = 0 /\ G > 0) => QEq(row.RSI, QInt(100))

C7_Witness ==
    /\ Len(Close) >= 14
    /\ SumFall(Close, Len(Close) - 14, Len(Close) - 1) > 0
    /\ SumRise(Close, Len(Close) - 14, Len(Close) - 1) > 0
    /\ QLt(QInt(0), row.RSI)
    /\ QLt(row.RSI, QInt(50))

\* C8: for n in {50, 200} SMA-n is undefined at every index i with
\* i + 1 < n and is the arithmetic mean of the closes i-n+1..i at every
\* other index.
C8_SmaIsWindowMean ==
    Len(Close) >= 1 =>
        \A n \in {50, 200} :
            LET sma == IF n = 50 THEN row.SMA_50 ELSE row.SMA_200
            IN /\ Len(Close) < n => sma.k = "nan"
               /\ Len(Close) >= n =>
                    /\ sma.k = "num"
                    /\ sma.n * n = SumClose(Close, Len(Close) - n + 1, Len(Close)) * sma.d

C8_Witness ==
    /\ Len(Close) > 200
    /\ row.SMA_200.k = "num"
    /\ Close[1] # Close[Len(Close)]
    /\ QLt(row.SMA_200, row.SMA_50)

\* ------------------------------------------------------------------------
\* Properties of generate_signal (SpecSignal)
\* ------------------------------------------------------------------------
Classified == result # NoSignal

\* every indicator of the observation is a number
ObsDefined ==
    /\ obs.rsi.k = "num" /\ obs.sma50.k = "num" /\ obs.sma200.k = "num"
    /\ obs.macd.k = "num" /\ obs.macd_signal.k = "num"

\* C1 as stated: an observation with defined indicators and RSI > 65 is
\* labelled Sell whatever the other inputs are.
C1_RsiAbove65IsSell ==
    (Classified /\ ObsDefined /\ QGt(obs.rsi, QInt(65))) => result.label = Sell

\* C1 amended: an observation with defined indicators and RSI > 65 is
\* labelled Sell when MACD < MACD-signal, whatever the other inputs are,
\* and Neutral otherwise; so RSI = 70 with the price below SMA-50 and above
\* SMA-200 and MACD > MACD-signal is labelled Neutral.
C1_RsiAbove65SellNeedsMacdBelow ==
    (Classified /\ ObsDefined /\ QGt(obs.rsi, QInt(65))) =>
        /\ ELt(obs.macd, obs.macd_signal) => result.label = Sell
        /\ ~ELt(obs.macd, obs.macd_signal) => result.label = Neutral

C1_Witness ==
    /\ Classified
    /\ obs.rsi = QInt(70)
    /\ QLt(obs.price, obs.sma50) /\ QGt(obs.price, obs.sma200)
    /\ EGt(obs.macd, obs.macd_signal)
    /\ result.label = Neutral

\* C3: whatever indicators are undefined and whatever the price is,
\* generate_signal returns one label of the closed set of four.
C3_Total ==
    Classified => result.label \in {Sell, Buy, Build, Neutral}

C3_Witness ==
    /\ Classified
    /\ obs.rsi.k = "nan" /\ obs.sma50.k = "nan" /\ obs.sma200.k = "nan"
    /\ obs.macd.k = "nan" /\ obs.macd_signal.k = "nan"
    /\ result.label = Neutral

\* C4: with SMA-200 undefined the label is never Buy, with SMA-50 undefined
\* it is neither Buy nor Building-Buy-Zone, and with MACD or MACD-signal
\* undefined it is Neutral (no condition of the Sell rule avoids reading them).
C4_UndefinedFallsThrough ==
    Classified =>
        /\ obs.sma200.k = "nan" => result.label # Buy
        /\ obs.sma50.k = "nan" => result.label \notin {Buy, Build}
        /\ (obs.macd.k = "nan" \/ obs.macd_signal.k = "nan") => result.label = Neutral

C4_Witness ==
    /\ Classified
    /\ obs.sma50.k = "nan"
    /\ obs.rsi = QInt(40)
    /\ EGt(obs.macd, obs.macd_signal)
    /\ result.label = Neutral

\* C10: no observation satisfies two of the three branch conditions, so
\* the label is the one of the only condition that holds, in any order of
\* evaluation, and Neutral when none holds.
C10_BranchesExclusive ==
    Classified =>
        LET s == SellCond(obs.rsi, obs.price, obs.sma50, obs.sma200, obs.macd, obs.macd_signal)
            b == BuyCond(obs.rsi, obs.price, obs.sma50, obs.sma200, obs.macd, obs.macd_signal)
            z == BuildCond(obs.rsi, obs.price, obs.sma50, obs.sma200, obs.macd, obs.macd_signal)
        IN /\ ~(s /\ b) /\ ~(s /\ z) /\ ~(b /\ z)
           /\ s => result.label = Sell
           /\ b => result.label = Buy
           /\ z => result.label = Build
           /\ ~(s \/ b \/ z) => result.label = Neutral

C10_Witness ==
    /\ Classified
    /\ BuildCond(obs.rsi, obs.price, obs.sma50, obs.sma200, obs.macd, obs.macd_signal)
    /\ obs.rsi = QInt(35)
    /\ result.label = Build

\* ------------------------------------------------------------------------
\* Properties of the script (SpecApp)
\* ------------------------------------------------------------------------
\* C5: the indicators a run shows are those of the series alone (the shown
\* close is the last close, the shown averages are the means of the last 50
\* and 200 closes, all as annotated), and the label follows from them with
\* the eToro price in every price comparison.
C5_ReferencePriceOnlyInComparisons ==
    ui.status = "rendered" =>
        LET p == QInt(ui.run.etoro_price)
            b == ui.binance
            n == Len(Close)
        IN /\ b = row
           /\ QEq(b.Close, QInt(Close[n]))
           /\ n >= 50 => b.SMA_50.n * 50 = SumClose(Close, n - 49, n) * b.SMA_50.d
           /\ n >= 200 => b.SMA_200.n * 200 = SumClose(Close, n - 199, n) * b.SMA_200.d
           /\ ui.signal.label = Sell <=>
                /\ ELt(b.MACD, b.MACD_Signal)
                /\ QGt(b.RSI, QInt(65)) \/ (QGt(p, b.SMA_50) /\ QGt(p, b.SMA_200))
           /\ ui.signal.label = Buy <=>
                /\ EGt(b.MACD, b.MACD_Signal)
                /\ QLt(b.RSI, QInt(35))
                /\ QLt(p, b.SMA_50) /\ QGt(p, b.SMA_200)
           /\ ui.signal.label = Build <=>
                /\ EGt(b.MACD, b.MACD_Signal)
                /\ QLe(QInt(35), b.RSI) /\ QLt(b.RSI, QInt(45))
                /\ QLe(p, b.SMA_50)

\* the last close would make the row a Buy, the eToro price does not
C5_Witness ==
    /\ ui.status = "rendered"
    /\ BuyCond(row.RSI, row.Close, row.SMA_50, row.SMA_200, row.MACD, row.MACD_Signal)
    /\ QLt(QInt(ui.run.etoro_price), row.SMA_200)
    /\ ui.signal.label = Neutral

\* C9 as stated: a run in which the CoinGecko fetch fails and the Binance
\* fetch succeeds does not end in the error state; it shows the notice, the
\* Binance indicators and a signal computed from the Binance series.
C9_FallsBackToBinance ==
    (ui.status # "idle" /\ ui.run.cg # "ok" /\ ui.run.bn = "ok") =>
        /\ ui.status = "rendered"
        /\ ui.notice
        /\ ui.binance = row
        /\ ui.signal.label \in {Sell, Buy, Build, Neutral}
====

